---- MODULE Spec2Model ----
(***************************************************************************)
(* A model of moss/glm.py: the construction of an fMRI design matrix       *)
(* (DesignMatrix.__init__ and the methods it calls), contrast_vector, and *)
(* the call of the HRF class that makes the model handed to it.            *)
(*                                                                         *)
(* Time is counted in ticks, Sec ticks to the second, so that the          *)
(* acquisition grid, the oversampled grid and the TR midpoints are all     *)
(* integers.  A DataFrame is a record [kind, columns, index, data] whose   *)
(* data is a sequence of columns; a 2-d array is [kind, nrows, data];      *)
(* Python's None is the record None.  Every column is held in integers:    *)
(* a column of the model is the column of the program times a positive     *)
(* constant (the kernel's normalisation, the divisions of the means and    *)
(* of the filter matrix are multiplied out).                               *)
(***************************************************************************)
EXTENDS Integers, Sequences, FiniteSets, TLC

VARIABLES
    design,            \* argument: the caller's event table (mutated in place)
    hrf_class,         \* the HRF class the caller constructs, and its temporal_deriv
    hrf_model,         \* argument: "identity", "gamma" or "gamma_deriv"; None before
    ntp,               \* argument: number of acquisition frames
    regressors,        \* argument: None, array or DataFrame
    confounds,         \* argument: None, array or DataFrame
    artifacts,         \* argument: None or a mask (array of 0/1)
    condition_names,   \* argument: None or a list of names
    tr,                \* argument: sampling interval, in ticks
    hpf_cutoff,        \* argument: None or a cutoff
    oversampling,      \* argument: <<numerator, denominator>>
    frametimes,        \* self.frametimes
    hires_frametimes,  \* self._hires_frametimes
    cond_names,        \* self._condition_names
    hires_base,        \* self._hires_base
    hires_conditions,  \* self._hires_conditions
    conditions,        \* local `conditions` of __init__
    v_regressors,      \* local `regressors` after _validate_component
    v_confounds,       \* local `confounds` after _validate_component
    art,               \* local `art`, the one-hot array
    v_artifacts,       \* local `artifacts` after _validate_component
    design_matrix,     \* self.design_matrix
    names,             \* self._full_names, _main_names, _confound_names, _artifact_names
    vectors,           \* self.main_vector, condition_vector, confound_vector, artifact_vector
    contrast,          \* the last call of contrast_vector: its arguments and result
    pc,                \* the constructor's position
    error              \* the exception that ended the construction, or "none"

args == <<design, hrf_class, hrf_model, ntp, regressors, confounds, artifacts,
          condition_names, tr, hpf_cutoff, oversampling>>
grids == <<frametimes, hires_frametimes, cond_names>>
hires == <<hires_base, hires_conditions>>
pieces == <<conditions, v_regressors, v_confounds, art, v_artifacts>>
result == <<design_matrix, names, vectors>>
vars == <<args, grids, hires, pieces, result, contrast, pc, error>>

----------------------------------------------------------------------------
(* Bounds of the model. *)

MaxNtp == 3

(* One second, in ticks. *)
Sec == 12

----------------------------------------------------------------------------
(* Values and helpers. *)

None == [kind |-> "none"]

IsNone(x) == x.kind = "none"

Min(a, b) == IF a <= b THEN a ELSE b

RECURSIVE SumSeq(_)
SumSeq(s) == IF s = <<>> THEN 0 ELSE s[1] + SumSeq(Tail(s))

Range(s) == {s[i] : i \in DOMAIN s}

RECURSIVE Concat(_)
Concat(ss) == IF ss = <<>> THEN <<>> ELSE ss[1] \o Concat(Tail(ss))

Zeros(n) == [i \in 1..n |-> 0]

CeilDiv(a, b) == (a + b - 1) \div b

(* np.arange(0, stop, step) for stop > 0: the multiples of step below stop. *)
ARange(stop, step) == [k \in 1..CeilDiv(stop, step) |-> (k - 1) * step]

(* np.searchsorted(a, x) (side left) on a sorted a: the number of elements  *)
(* below x, which is the 0-based index of the first element >= x.           *)
SearchSorted(a, x) == Cardinality({i \in DOMAIN a : a[i] < x})

(* np.cumsum *)
CumSum(s) == [i \in DOMAIN s |-> SumSeq(SubSeq(s, 1, i))]

(* The string of a small number, and the names "base_0", "base_1", ... *)
Digit(i) == <<"0", "1", "2", "3", "4", "5", "6", "7", "8", "9">>[i + 1]

IntLabels(n) == [i \in 1..n |-> Digit(i - 1)]

DefaultNames(name_base, n) == [i \in 1..n |-> name_base \o "_" \o Digit(i - 1)]

(* ev[idx] += sign * vals with numpy's fancy indexing: every indexed        *)
(* position is read once and written once, so among the entries of idx     *)
(* that name the same position the last one decides the value written.     *)
(* idx holds 0-based positions.                                            *)
FancyAdd(ev, idx, vals, sign) ==
    [i \in DOMAIN ev |->
        LET ks == {k \in DOMAIN idx : idx[k] = i - 1}
        IN  IF ks = {} THEN ev[i]
            ELSE ev[i] + sign * vals[CHOOSE k \in ks : \A m \in ks : m <= k]]

(* DesignMatrix._make_hires_ev_base: info is the sequence of the rows      *)
(* [onset, duration, value] of one condition, hft the oversampled grid.    *)
EvOnsetIndex(info, hft) ==
    [k \in DOMAIN info |-> Min(SearchSorted(hft, info[k].onset), Len(hft) - 1)]

(* the offsets without the step that moves a zero-length offset on by one *)
EvOffsetIndexNotAdvanced(info, hft) ==
    [k \in DOMAIN info |->
        Min(SearchSorted(hft, info[k].onset + info[k].duration), Len(hft) - 1)]

EvOffsetIndex(info, hft) ==
    LET tmax == Len(hft)
        t_onset == EvOnsetIndex(info, hft)
        t_offset == [k \in DOMAIN info |->
                        Min(SearchSorted(hft, info[k].onset + info[k].duration),
                            Len(hft) - 1)]
    IN  [k \in DOMAIN info |->
            IF t_offset[k] < tmax - 1 /\ t_offset[k] = t_onset[k]
            THEN t_offset[k] + 1 ELSE t_offset[k]]

MakeHiresEvBase(info, hft) ==
    LET vals == [k \in DOMAIN info |-> info[k].value]
        ev0 == Zeros(Len(hft))
        ev1 == FancyAdd(ev0, EvOnsetIndex(info, hft), vals, 1)
        ev2 == FancyAdd(ev1, EvOffsetIndex(info, hft), vals, -1)
    IN  CumSum(ev2)

----------------------------------------------------------------------------
(* DataFrames. *)

DataFrame(columns, index, data) ==
    [kind |-> "df", columns |-> columns, index |-> index, data |-> data]

(* df[key] = vals: an existing column is replaced, a new one is appended. *)
SetColumn(df, key, vals) ==
    IF key \in Range(df.columns)
    THEN [df EXCEPT !.data = [c \in DOMAIN df.data |->
                                IF df.columns[c] = key THEN vals ELSE df.data[c]]]
    ELSE [df EXCEPT !.columns = Append(df.columns, key),
                    !.data = Append(df.data, vals)]

(* x - x.mean(), times the number of rows. *)
Demean(col) == [i \in DOMAIN col |-> Len(col) * col[i] - SumSeq(col)]

DemeanFrame(df) == [df EXCEPT !.data = [c \in DOMAIN df.data |-> Demean(df.data[c])]]

----------------------------------------------------------------------------
(* The HRF models. *)

(* GammaDifferenceHRF.kernel: the difference of the two gamma densities    *)
(* sampled from 0 on, which starts at 0, peaks and undershoots; here a     *)
(* coarse sampling of it times a constant (the program normalises it to    *)
(* sum 1).                                                                 *)
KernelMain == <<0, 3, 2, -1>>

(* dy = np.concatenate([[0], np.diff(y)]), up to its positive scale. *)
KernelDeriv ==
    [i \in DOMAIN KernelMain |-> IF i = 1 THEN 0 ELSE KernelMain[i] - KernelMain[i - 1]]

(* np.convolve(data, kernel)[:len(data)] *)
NpConvolve(data, kernel) ==
    [i \in DOMAIN data |->
        SumSeq([j \in 1..i |-> IF i - j + 1 <= Len(kernel)
                               THEN data[j] * kernel[i - j + 1] ELSE 0])]

(* hrf_model.convolve(data, frametimes, name): the columns of the frame it *)
(* returns, as a sequence of <<name, values>>.                             *)
HrfConvolve(model, data, name) ==
    CASE model = "identity" -> << <<name, data>> >>
      [] model = "gamma" -> << <<name, NpConvolve(data, KernelMain)>> >>
      [] model = "gamma_deriv" ->
            << <<name, NpConvolve(data, KernelMain)>>,
               <<name \o "_deriv", NpConvolve(data, KernelDeriv)>> >>

----------------------------------------------------------------------------
(* DesignMatrix._make_hires_base and DesignMatrix._convolve. *)

CondInfo(d, cond) == SelectSeq(d.rows, LAMBDA r : r.condition = cond)

MakeHiresBase(d, cnames, hft) ==
    LET empty == DataFrame(cnames, hft, [c \in DOMAIN cnames |-> Zeros(Len(hft))])
        RECURSIVE Fill(_, _)
        Fill(df, k) ==
            IF k > Len(cnames) THEN df
            ELSE Fill(SetColumn(df, cnames[k],
                                MakeHiresEvBase(CondInfo(d, cnames[k]), hft)), k + 1)
    IN  Fill(empty, 1)

ConvolveAll(model, base, cnames) ==
    LET RECURSIVE Put(_, _, _)
        Put(df, res, i) ==
            IF i > Len(res) THEN df
            ELSE Put(SetColumn(df, res[i][1], res[i][2]), res, i + 1)
        ColumnOf(cond) ==
            base.data[CHOOSE c \in DOMAIN base.columns : base.columns[c] = cond]
        RECURSIVE Each(_, _)
        Each(df, k) ==
            IF k > Len(cnames) THEN df
            ELSE Each(Put(df, HrfConvolve(model, ColumnOf(cnames[k]), cnames[k]), 1),
                      k + 1)
    IN  Each(base, 1)

----------------------------------------------------------------------------
(* DesignMatrix._subsample_condition_matrix. *)

FrametimeMidpoints(ft, t) == [i \in DOMAIN ft |-> ft[i] + t \div 2]

(* interp1d raises when a point lies outside [x[0], x[-1]]. *)
InSupport(hft, x) == hft[1] <= x /\ x <= hft[Len(hft)]

(* interp1d(kind="nearest"): the 0-based index of the sample used for x is *)
(* the number of midpoints between neighbouring samples that lie below x.  *)
NearestIndex(hft, x) ==
    Cardinality({k \in 1..(Len(hft) - 1) : hft[k] + hft[k + 1] < 2 * x})

Resample(hft, vals, points) ==
    [i \in DOMAIN points |-> vals[NearestIndex(hft, points[i]) + 1]]

SubsampleConditionMatrix(hc, hft, ft, t) ==
    DataFrame(hc.columns, ft,
              [c \in DOMAIN hc.data |->
                  Resample(hft, hc.data[c], FrametimeMidpoints(ft, t))])

----------------------------------------------------------------------------
(* fsl_highpass_matrix and DesignMatrix._highpass_filter.                  *)
(*                                                                         *)
(* Row k of H is row k of the hat matrix of the weighted straight-line fit *)
(* X pinv(WX) W with X = [1, t] and W the k-th row of the normalised       *)
(* Gaussian Toeplitz matrix.  The model takes the cutoff long against the  *)
(* run (as the default 128 s is on the short runs modelled), where the     *)
(* weights at lags below ntp are equal and every row's fit is the ordinary *)
(* least-squares line:                                                     *)
(*   H[k][j] = (S2 - S1 (k + j) + S0 k j) / Det,  Det = S0 S2 - S1^2,      *)
(* with S0, S1, S2 the sums of 1, t and t^2 over t = 0..n-1.  With one     *)
(* frame the pseudo-inverse gives H = [[1]].  FilterColumn is F vals with  *)
(* F = I - H, times Det (times 1 with one frame).                          *)

HatS(n, p) == SumSeq([t \in 1..n |-> IF p = 0 THEN 1 ELSE (t - 1) ^ p])

HatDet(n) == HatS(n, 0) * HatS(n, 2) - HatS(n, 1) * HatS(n, 1)

HatNumerator(n, k, j) == HatS(n, 2) - HatS(n, 1) * (k + j) + HatS(n, 0) * k * j

FilterColumn(vals) ==
    LET n == Len(vals)
    IN  IF n = 1 THEN <<0>>
        ELSE [k \in 1..n |->
                HatDet(n) * vals[k]
                - SumSeq([j \in 1..n |-> HatNumerator(n, k - 1, j - 1) * vals[j]])]

HighpassFilter(mat) ==
    [mat EXCEPT !.data = [c \in DOMAIN mat.data |-> FilterColumn(mat.data[c])]]

----------------------------------------------------------------------------
(* DesignMatrix._validate_component.  The result is [ok, value, err]: the  *)
(* validated frame (or None), or ok = FALSE and the message of the         *)
(* ValueError when the method raises.                                      *)

Raised(e) == [ok |-> FALSE, value |-> None, err |-> e]

Returned(v) == [ok |-> TRUE, value |-> v, err |-> "none"]

(* The classes of HRF models and what calling one gives. *)

HrfClass(cls, temporal_deriv) == [cls |-> cls, temporal_deriv |-> temporal_deriv]

(* the exception class NotImplementedError, as a value *)
NotImplementedErrorClass == [kind |-> "class", name |-> "NotImplementedError"]

NotImplementedError == "NotImplementedError"

(* TypeError: __init__() should return None, not 'type' *)
InitReturnTypeError == "TypeError: __init__() should return None"

(* cls.__init__(self, ...): what the initialiser of the class does.  The   *)
(* one of HRFModel raises, IdentityHRF has none of its own (object's       *)
(* returns None), the one of GammaDifferenceHRF stores its parameters and  *)
(* falls off its end, and the one of FIR returns the exception class.      *)
HrfInit(c) ==
    CASE c.cls = "HRFModel" -> Raised(NotImplementedError)
      [] c.cls = "IdentityHRF" -> Returned(None)
      [] c.cls = "GammaDifferenceHRF" -> Returned(None)
      [] c.cls = "FIR" -> Returned(NotImplementedErrorClass)

(* the instance of a class, as the constructor of the design matrix reads  *)
(* it                                                                      *)
HrfInstance(c) ==
    CASE c.cls = "IdentityHRF" -> "identity"
      [] c.cls = "GammaDifferenceHRF" ->
            IF c.temporal_deriv THEN "gamma_deriv" ELSE "gamma"
      [] OTHER -> "object"

(* cls(...): Python makes the object, runs __init__ on it, passes on what  *)
(* __init__ raises, and raises TypeError when __init__ returns anything    *)
(* but None; otherwise the call yields the object.                         *)
CallHrfClass(c) ==
    LET r == HrfInit(c)
    IN  IF ~r.ok THEN r
        ELSE IF ~IsNone(r.value) THEN Raised(InitReturnTypeError)
        ELSE Returned(HrfInstance(c))

(* "Frametimes for %ss do not match design." % name_base *)
AlignmentError(name_base) == "Frametimes for " \o name_base \o "s do not match design."

(* the ValueError of pandas for data or an index of another length *)
LengthError == "Length mismatch"

(* the ValueError of interp1d for a point outside the samples *)
InterpolationError == "A value in x_new is above the interpolation range."

(* np.arange(len(comp)): the positions 0, 1, 2, ... read as times. *)
Positional(n) == [i \in 1..n |-> (i - 1) * Sec]

(* a check that lets every index of the right length through *)
FrametimesMatchAlways(index, ft) == TRUE

FrametimesMatch(index, ft) == index = ft \/ index = Positional(Len(index))

ValidateComponent(comp, name_base, ft) ==
    IF IsNone(comp) THEN Returned(None)
    ELSE
    LET n == Len(comp.data)
    IN  IF comp.kind = "array"
        THEN \* pd.DataFrame(comp, self.frametimes, names) needs one row per frame
             IF comp.nrows # Len(ft) THEN Raised(LengthError)
             ELSE Returned(DataFrame(DefaultNames(name_base, n), ft, comp.data))
        ELSE
        LET renamed == IF comp.columns = IntLabels(n)
                       THEN DefaultNames(name_base, n) ELSE comp.columns
        IN  \* a frame of another length fails in the comparison with the grid
            \* or in the assignment of the grid as its index
            IF Len(comp.index) # Len(ft) THEN Raised(LengthError)
            ELSE IF ~FrametimesMatch(comp.index, ft) THEN Raised(AlignmentError(name_base))
            ELSE Returned(DataFrame(renamed, ft, comp.data))

----------------------------------------------------------------------------
(* The artifact indicators of DesignMatrix.__init__. *)

(* np.where(artifacts.astype(bool)): the flagged positions, increasing. *)
Flagged(mask) ==
    LET RECURSIVE Pick(_)
        Pick(i) == IF i > Len(mask) THEN <<>>
                   ELSE (IF mask[i] # 0 THEN <<i>> ELSE <<>>) \o Pick(i + 1)
    IN  Pick(1)

(* one column that flags every artifact frame, instead of one per frame *)
ArtifactArrayOneColumn(mask) ==
    [kind |-> "array", nrows |-> Len(mask),
     data |-> <<[i \in 1..Len(mask) |-> IF mask[i] # 0 THEN 1 ELSE 0]>>]

(* art = zeros((size, n_art)); art[where, arange(n_art)] = 1 *)
ArtifactArray(mask) ==
    LET n_art == SumSeq(mask)
        where == Flagged(mask)
    IN  [kind |-> "array", nrows |-> Len(mask),
         data |-> [j \in 1..n_art |->
                     [i \in 1..Len(mask) |-> IF i = where[j] THEN 1 ELSE 0]]]

----------------------------------------------------------------------------
(* The assembly, the name lists and the masks of DesignMatrix.__init__. *)

Present(ps) == SelectSeq(ps, LAMBDA p : ~IsNone(p))

(* a slip in the order of the appends: confounds before regressors *)
PiecesConfoundsFirst(c, r, f, a) == <<c>> \o Present(<<f, r, a>>)

(* pieces = [conditions] and then each of the others that is not None *)
Pieces(c, r, f, a) == <<c>> \o Present(<<r, f, a>>)

(* the assembly without its last line, X -= X.mean(axis=0) *)
AssembleNotCentred(ps, ft) ==
    DataFrame(Concat([i \in DOMAIN ps |-> ps[i].columns]), ft,
              Concat([i \in DOMAIN ps |-> ps[i].data]))

(* X = pd.concat(pieces, axis=1); X.index = frametimes; X -= X.mean(axis=0) *)
Assemble(ps, ft) ==
    DemeanFrame(DataFrame(Concat([i \in DOMAIN ps |-> ps[i].columns]), ft,
                          Concat([i \in DOMAIN ps |-> ps[i].data])))

ColumnsOf(p) == IF IsNone(p) THEN <<>> ELSE p.columns

(* main_names without the regressors' columns *)
MainNamesConditionsOnly(cnames, r) == cnames

MainNames(cnames, r) == cnames \o ColumnsOf(r)

(* cols.isin(some_names) *)
IsIn(cols, some_names) == [j \in DOMAIN cols |-> cols[j] \in Range(some_names)]

Vec(v) == [kind |-> "vec", v |-> v]

----------------------------------------------------------------------------
(* DesignMatrix.contrast_vector *)

(* the loop with the first listing of a name deciding, not the last *)
ContrastVectorFirstWins(columns, ns, ws) ==
    LET m == Min(Len(ns), Len(ws))
        RECURSIVE Loop(_, _)
        Loop(vector, k) ==
            IF k < 1 THEN vector
            ELSE Loop([j \in DOMAIN vector |->
                          IF columns[j] = ns[k] THEN ws[k] ELSE vector[j]], k - 1)
    IN  Loop(Zeros(Len(columns)), m)

ContrastVector(columns, ns, ws) ==
    LET m == Min(Len(ns), Len(ws))    \* zip stops at the shorter list
        RECURSIVE Loop(_, _)
        Loop(vector, k) ==
            IF k > m THEN vector
            ELSE Loop([j \in DOMAIN vector |->
                          IF columns[j] = ns[k] THEN ws[k] ELSE vector[j]], k + 1)
    IN  Loop(Zeros(Len(columns)), 1)

----------------------------------------------------------------------------
(* The inputs the constructor is run on. *)

TRs == {Sec, 2 * Sec}

(* a TR of half a second as well, where the extra second spans two TRs *)
TimingTRs == {Sec \div 2, Sec, 2 * Sec}

(* oversampling as a fraction in lowest terms: 1, 3/2, 2 and 3 *)
Oversamplings == {<<1, 1>>, <<3, 2>>, <<2, 1>>, <<3, 1>>}

HiresStep(t, os) == (t * os[2]) \div os[1]

(* the oversampled grid stopped where the acquisition grid stops *)
HiresStopNotExtended(n, t, os) == n * t

(* stop = stop + 1 if oversampling == 1 else stop; the 1 is one second *)
HiresStop(n, t, os) == IF os = <<1, 1>> THEN n * t + Sec ELSE n * t

HiresFrametimes(n, t, os) == ARange(HiresStop(n, t, os), HiresStep(t, os))

Event(c, on, du, va) == [condition |-> c, onset |-> on, duration |-> du, value |-> va]

Table(cols, rows) == [columns |-> cols, rows |-> rows]

FullColumns == {"condition", "onset", "duration", "value"}

(* Event tables of one condition: every single event over the onsets and   *)
(* durations below, pairs of events, and tables that leave out the         *)
(* optional columns.                                                       *)
TimingDesigns(n, t, os) ==
    LET hft == HiresFrametimes(n, t, os)
        last == hft[Len(hft)]
        onsets == {-5, 0, 7, last, last + 5}
        singles == {Table(FullColumns, <<Event("A", on, du, va)>>) :
                        on \in onsets, du \in {0, 5, 40}, va \in {1, 2}}
        pairs == {Table(FullColumns, <<Event("A", 0, du1, 1), Event("A", on, du2, 2)>>) :
                        on \in {0, 7, 30, last}, du1 \in {0, 5}, du2 \in {0, 5}}
        bare == {Table({"condition", "onset"}, <<[condition |-> "A", onset |-> on]>>) :
                        on \in {0, 7}}
                \cup {Table({"condition", "onset", "value"},
                            <<[condition |-> "A", onset |-> 7, value |-> 2]>>),
                      Table({"condition", "onset", "duration"},
                            <<[condition |-> "B", onset |-> 0, duration |-> 5],
                              [condition |-> "A", onset |-> 7, duration |-> 0]>>)}
    IN  singles \cup pairs \cup bare

TwoConditions ==
    Table(FullColumns, <<Event("B", 7, 2 * Sec, 2), Event("A", 0, 0, 1)>>)

List(l) == [kind |-> "list", l |-> l]

ConditionNameChoices == {None, List(<<"B", "A">>), List(<<"A", "C">>)}

Array(nrows, data) == [kind |-> "array", nrows |-> nrows, data |-> data]

(* Columns of values over n frames: a curved one, a ramp and a step. *)
Curve(n) == [i \in 1..n |-> i * i]

Ramp(n) == [i \in 1..n |-> 2 * i]

Step(n) == [i \in 1..n |-> IF i = 1 THEN 3 ELSE 0]

Shifted(ft, t) == [i \in DOMAIN ft |-> ft[i] + t]

RegressorChoices(n, t) ==
    LET ft == ARange(n * t, t)
    IN  {None,
         Array(n, <<Curve(n)>>),
         Array(n + 1, <<Curve(n + 1)>>),
         DataFrame(<<"R">>, ft, <<Curve(n)>>),
         DataFrame(IntLabels(2), Positional(n), <<Curve(n), Step(n)>>),
         DataFrame(<<"R">>, Shifted(ft, t), <<Curve(n)>>),
         DataFrame(<<"confound_0">>, ft, <<Step(n)>>),
         DataFrame(<<"A">>, Positional(n), <<Curve(n)>>)}

ConfoundChoices(n, t) ==
    LET ft == ARange(n * t, t)
    IN  {None,
         Array(n, <<Ramp(n), Curve(n)>>),
         DataFrame(<<"M">>, Positional(n), <<Curve(n)>>),
         DataFrame(<<"M">>, Positional(n + 1), <<Curve(n + 1)>>),
         DataFrame(<<"M">>, Shifted(ft, 1), <<Step(n)>>)}

Mask(m) == [kind |-> "mask", v |-> m]

AllMasks(n) == {Mask(m) : m \in [1..n -> {0, 1}]}

FewMasks(n) == {None, Mask(Zeros(n)), Mask([i \in 1..n |-> IF i = n THEN 1 ELSE 0])}

Cutoff == [kind |-> "cutoff"]

(* the HRF model and the cutoff of a run *)
Identity == HrfClass("IdentityHRF", FALSE)

HrfAndCutoff ==
    {<<Identity, None>>, <<HrfClass("GammaDifferenceHRF", FALSE), Cutoff>>,
     <<HrfClass("GammaDifferenceHRF", TRUE), None>>,
     <<HrfClass("GammaDifferenceHRF", TRUE), Cutoff>>}

Unset ==
    /\ hrf_model = None
    /\ frametimes = <<>>
    /\ hires_frametimes = <<>>
    /\ cond_names = <<>>
    /\ hires_base = None
    /\ hires_conditions = None
    /\ conditions = None
    /\ v_regressors = None
    /\ v_confounds = None
    /\ art = None
    /\ v_artifacts = None
    /\ design_matrix = None
    /\ names = None
    /\ vectors = None
    /\ contrast = None
    /\ pc = "new"
    /\ error = "none"

(* Runs that vary the grids and the event table. *)
InitTiming ==
    /\ ntp \in 1..MaxNtp
    /\ tr \in TimingTRs
    /\ oversampling \in Oversamplings
    /\ design \in TimingDesigns(ntp, tr, oversampling)
    /\ hrf_class = Identity
    /\ hpf_cutoff = None
    /\ condition_names = None
    /\ regressors = None
    /\ confounds = None
    /\ artifacts = None

(* Runs that vary the HRF, the filter, the condition names and the         *)
(* supplied components.                                                    *)
InitComponents ==
    /\ ntp \in 1..MaxNtp
    /\ tr \in TRs
    /\ oversampling = <<2, 1>>
    /\ design = TwoConditions
    /\ \E hc \in HrfAndCutoff : hrf_class = hc[1] /\ hpf_cutoff = hc[2]
    /\ condition_names \in ConditionNameChoices
    /\ regressors \in RegressorChoices(ntp, tr)
    /\ confounds \in ConfoundChoices(ntp, tr)
    /\ artifacts \in FewMasks(ntp)

(* Runs that vary the artifact mask. *)
InitArtifacts ==
    /\ ntp \in 1..MaxNtp
    /\ tr = 2 * Sec
    /\ oversampling = <<2, 1>>
    /\ design = TwoConditions
    /\ hrf_class = Identity
    /\ hpf_cutoff = None
    /\ condition_names = None
    /\ regressors = None
    /\ confounds \in {None, Array(ntp, <<Ramp(ntp)>>)}
    /\ artifacts \in AllMasks(ntp) \cup {Mask([i \in 1..(ntp + 1) |-> 1])}

(* Runs that call the classes of which no model can be made. *)
InitModels ==
    /\ ntp \in 1..MaxNtp
    /\ tr \in TRs
    /\ oversampling = <<2, 1>>
    /\ design = TwoConditions
    /\ hrf_class \in {HrfClass("FIR", FALSE), HrfClass("HRFModel", FALSE)}
    /\ hpf_cutoff \in {None, Cutoff}
    /\ condition_names = None
    /\ regressors = None
    /\ confounds = None
    /\ artifacts = None

Init == (InitTiming \/ InitComponents \/ InitArtifacts \/ InitModels) /\ Unset

----------------------------------------------------------------------------
(* DesignMatrix.__init__, step by step. *)

(* if "duration" not in design: design["duration"] = 0, and the same for   *)
(* "value" with 1: the columns are added to the caller's table.            *)
WithDefaults(d) ==
    LET fill(r) == (IF "duration" \in d.columns THEN r ELSE r @@ [duration |-> 0])
        both(r) == (IF "value" \in d.columns THEN fill(r) ELSE fill(r) @@ [value |-> 1])
    IN  Table(d.columns \cup {"duration", "value"},
              [k \in DOMAIN d.rows |-> both(d.rows[k])])

(* np.sort(design.condition.unique()) *)
CondOrder == <<"A", "B", "C">>

SortedUnique(d) ==
    SelectSeq(CondOrder, LAMBDA c : \E k \in DOMAIN d.rows : d.rows[k].condition = c)

Raise(e) ==
    /\ pc' = "error"
    /\ error' = e

(* the caller's hrf_model = cls(...), before the constructor is entered *)
NewHrfModel ==
    /\ pc = "new"
    /\ LET r == CallHrfClass(hrf_class)
       IN  IF r.ok
           THEN hrf_model' = r.value /\ pc' = "start" /\ UNCHANGED error
           ELSE Raise(r.err) /\ UNCHANGED hrf_model
    /\ UNCHANGED <<design, hrf_class, ntp, regressors, confounds, artifacts,
                   condition_names, tr, hpf_cutoff, oversampling>>
    /\ UNCHANGED <<grids, hires, pieces, result, contrast>>

(* lines 213-233 *)
Start ==
    /\ pc = "start"
    /\ design' = WithDefaults(design)
    /\ frametimes' = ARange(ntp * tr, tr)
    /\ hires_frametimes' = HiresFrametimes(ntp, tr, oversampling)
    /\ cond_names' = IF IsNone(condition_names) THEN SortedUnique(design)
                     ELSE condition_names.l
    /\ pc' = "hires_base"
    /\ UNCHANGED <<hrf_class, hrf_model, ntp, regressors, confounds, artifacts,
                   condition_names, tr, hpf_cutoff, oversampling>>
    /\ UNCHANGED <<hires, pieces, result, contrast, error>>

(* line 236 *)
MakeHiresBaseStep ==
    /\ pc = "hires_base"
    /\ hires_base' = MakeHiresBase(design, cond_names, hires_frametimes)
    /\ pc' = "convolve"
    /\ UNCHANGED <<args, grids, hires_conditions, pieces, result, contrast, error>>

(* line 237 *)
ConvolveStep ==
    /\ pc = "convolve"
    /\ hires_conditions' = ConvolveAll(hrf_model, hires_base, cond_names)
    /\ pc' = "subsample"
    /\ UNCHANGED <<args, grids, hires_base, pieces, result, contrast, error>>

(* line 240 *)
SubsampleStep ==
    /\ pc = "subsample"
    /\ IF \A i \in DOMAIN frametimes :
            InSupport(hires_frametimes, FrametimeMidpoints(frametimes, tr)[i])
       THEN /\ conditions' = SubsampleConditionMatrix(hires_conditions,
                                                      hires_frametimes, frametimes, tr)
            /\ pc' = "highpass"
            /\ UNCHANGED error
       ELSE /\ Raise(InterpolationError)
            /\ UNCHANGED conditions
    /\ UNCHANGED <<args, grids, hires, v_regressors, v_confounds, art, v_artifacts,
                   result, contrast>>

(* lines 241-242 without the filter of lines 243-244 *)
CentreOnly(c, cutoff) == DemeanFrame(c)

(* lines 241-244 *)
CentreAndFilter(c, cutoff) ==
    IF IsNone(cutoff) THEN DemeanFrame(c) ELSE HighpassFilter(DemeanFrame(c))

HighpassStep ==
    /\ pc = "highpass"
    /\ conditions' = CentreAndFilter(conditions, hpf_cutoff)
    /\ pc' = "regressors"
    /\ UNCHANGED <<args, grids, hires, v_regressors, v_confounds, art, v_artifacts,
                   result, contrast, error>>

(* line 247 *)
RegressorsStep ==
    /\ pc = "regressors"
    /\ LET res == ValidateComponent(regressors, "regressor", frametimes)
       IN  IF res.ok
           THEN /\ v_regressors' = res.value
                /\ pc' = "confounds"
                /\ UNCHANGED error
           ELSE /\ Raise(res.err)
                /\ UNCHANGED v_regressors
    /\ UNCHANGED <<args, grids, hires, conditions, v_confounds, art, v_artifacts,
                   result, contrast>>

(* line 250; confound_pca keeps its default, False *)
ConfoundsStep ==
    /\ pc = "confounds"
    /\ LET res == ValidateComponent(confounds, "confound", frametimes)
       IN  IF res.ok
           THEN /\ v_confounds' = res.value
                /\ pc' = "artifacts"
                /\ UNCHANGED error
           ELSE /\ Raise(res.err)
                /\ UNCHANGED v_confounds
    /\ UNCHANGED <<args, grids, hires, conditions, v_regressors, art, v_artifacts,
                   result, contrast>>

(* lines 259-266 *)
ArtifactsStep ==
    /\ pc = "artifacts"
    /\ IF IsNone(artifacts) \/ SumSeq(artifacts.v) = 0
       THEN /\ pc' = "assemble"
            /\ UNCHANGED <<art, v_artifacts, error>>
       ELSE LET a == ArtifactArray(artifacts.v)
                res == ValidateComponent(a, "artifact", frametimes)
            IN  /\ art' = a
                /\ IF res.ok
                   THEN /\ v_artifacts' = res.value
                        /\ pc' = "assemble"
                        /\ UNCHANGED error
                   ELSE /\ Raise(res.err)
                        /\ UNCHANGED v_artifacts
    /\ UNCHANGED <<args, grids, hires, conditions, v_regressors, v_confounds,
                   result, contrast>>

(* lines 269-281 *)
AssembleStep ==
    /\ pc = "assemble"
    /\ design_matrix' = Assemble(Pieces(conditions, v_regressors, v_confounds,
                                        v_artifacts), frametimes)
    /\ pc' = "masks"
    /\ UNCHANGED <<args, grids, hires, pieces, names, vectors, contrast, error>>

(* lines 285-299 *)
NameLists(X, cnames, r, f, a) ==
    [kind |-> "names",
     full |-> X.columns,
     main |-> MainNames(cnames, r),
     confound |-> ColumnsOf(f),
     artifact |-> ColumnsOf(a)]

(* lines 302-309 *)
MaskVectors(X, cnames, r, f, a) ==
    [kind |-> "vectors",
     main |-> Vec(IsIn(X.columns, MainNames(cnames, r))),
     condition |-> Vec(IsIn(X.columns, cnames)),
     confound |-> IF IsNone(f) THEN None ELSE Vec(IsIn(X.columns, ColumnsOf(f))),
     artifact |-> IF IsNone(a) THEN None ELSE Vec(IsIn(X.columns, ColumnsOf(a)))]

MasksStep ==
    /\ pc = "masks"
    /\ names' = NameLists(design_matrix, cond_names, v_regressors, v_confounds,
                          v_artifacts)
    /\ vectors' = MaskVectors(design_matrix, cond_names, v_regressors, v_confounds,
                              v_artifacts)
    /\ pc' = "done"
    /\ UNCHANGED <<args, grids, hires, pieces, design_matrix, contrast, error>>

----------------------------------------------------------------------------
(* Calls of contrast_vector on the constructed object. *)

ContrastArgs ==
    {<< <<"A", "B">>, <<1, -1>> >>, << <<"B", "B">>, <<2, 3>> >>,
     << <<"regressor_0", "A">>, <<2, 3>> >>, << <<"R", "Z">>, <<1, -1>> >>,
     << <<"A", "B">>, <<2>> >>}

CallContrastVector ==
    /\ pc = "done"
    /\ \E a \in ContrastArgs :
          contrast' = [kind |-> "contrast", names |-> a[1], weights |-> a[2],
                       vector |-> ContrastVector(design_matrix.columns, a[1], a[2])]
    /\ UNCHANGED <<args, grids, hires, pieces, result, pc, error>>

Next ==
    \/ NewHrfModel
    \/ Start
    \/ MakeHiresBaseStep
    \/ ConvolveStep
    \/ SubsampleStep
    \/ HighpassStep
    \/ RegressorsStep
    \/ ConfoundsStep
    \/ ArtifactsStep
    \/ AssembleStep
    \/ MasksStep
    \/ CallContrastVector

Spec == Init /\ [][Next]_vars

----------------------------------------------------------------------------
(* Properties of the constructed object. *)

Built == pc \in {"masks", "done"}

Done == pc = "done"

X == design_matrix

Cols == DOMAIN X.columns

(* A mask that is None marks nothing. *)
Marks(v, j) == ~IsNone(v) /\ v.v[j]

InMasks(j) ==
    Cardinality({g \in {"main", "confound", "artifact"} : Marks(vectors[g], j)})

(* The columns the temporal derivative of the HRF adds: name_deriv. *)
IsDerivativeColumn(j) ==
    /\ hrf_model = "gamma_deriv"
    /\ \E c \in Range(cond_names) : X.columns[j] = c \o "_deriv"

NamesDistinct == \A i, j \in Cols : X.columns[i] = X.columns[j] => i = j

(* C1 as stated: main_vector, confound_vector and artifact_vector are      *)
(* pairwise disjoint and together mark every column of design_matrix       *)
(* (read on the matrices whose column names are all distinct, where a name *)
(* cannot put one column into two masks).                                  *)
C1_MasksPartitionColumns == (Done /\ NamesDistinct) => \A j \in Cols : InMasks(j) = 1

(* C1 amended: when no name heads two columns, the three masks are         *)
(* pairwise disjoint and together mark every column except the temporal    *)
(* derivative columns, which are in none of them.                          *)
C1_MasksPartitionNonDerivative ==
    (Done /\ NamesDistinct) =>
        \A j \in Cols : InMasks(j) = (IF IsDerivativeColumn(j) THEN 0 ELSE 1)

C1_Witness ==
    /\ Done /\ NamesDistinct
    /\ hrf_model = "gamma_deriv"
    /\ ~IsNone(v_regressors) /\ ~IsNone(v_confounds) /\ ~IsNone(v_artifacts)
    /\ \E j \in Cols : IsDerivativeColumn(j)
    /\ \E j \in Cols : Marks(vectors.main, j) /\ X.columns[j] \notin Range(cond_names)

(* The columns of the four groups as they were handed to the assembly, in  *)
(* the order condition group, regressors, confounds, artifacts.            *)
GroupOrder == <<conditions, v_regressors, v_confounds, v_artifacts>>

Width(p) == Len(ColumnsOf(p))

(* the group of column j if the groups lie in the fixed order *)
GroupAt(j) ==
    CHOOSE g \in 1..4 :
        /\ SumSeq([h \in 1..(g - 1) |-> Width(GroupOrder[h])]) < j
        /\ j <= SumSeq([h \in 1..g |-> Width(GroupOrder[h])])

OffsetIn(j) == j - SumSeq([h \in 1..(GroupAt(j) - 1) |-> Width(GroupOrder[h])])

(* C2: the columns of design_matrix are the condition group's columns,     *)
(* then the regressors', then the confounds', then the artifacts': column  *)
(* j is the column of its group at its place there, centred.               *)
C2_ColumnsInGroupOrder ==
    Built =>
        /\ Len(X.columns) = SumSeq([h \in 1..4 |-> Width(GroupOrder[h])])
        /\ \A j \in Cols :
              /\ X.columns[j] = GroupOrder[GroupAt(j)].columns[OffsetIn(j)]
              /\ X.data[j] = Demean(GroupOrder[GroupAt(j)].data[OffsetIn(j)])

C2_Witness ==
    /\ Done
    /\ hrf_model = "gamma_deriv"
    /\ ~IsNone(v_regressors) /\ ~IsNone(v_confounds) /\ ~IsNone(v_artifacts)
    /\ \E i, j \in Cols : X.data[i] # X.data[j]

(* C3: every column of design_matrix sums to zero over the frames. *)
C3_ColumnsSumToZero == Built => \A j \in Cols : SumSeq(X.data[j]) = 0

C3_Witness ==
    /\ Done
    /\ ~IsNone(hpf_cutoff)
    /\ ~IsNone(v_regressors) /\ ~IsNone(v_confounds) /\ ~IsNone(v_artifacts)
    /\ \A g \in 1..4 : \E j \in Cols : GroupAt(j) = g /\ X.data[j] # Zeros(ntp)

----------------------------------------------------------------------------
(* The event encoder. *)

HiresBuilt == ~IsNone(hires_base)

(* the conditions of the matrix that have a single event, of duration 0 *)
IsImpulse(c) ==
    LET info == CondInfo(design, cond_names[c])
    IN  Len(info) = 1 /\ info[1].duration = 0

(* the first sample of the grid at or after time x; the last sample when   *)
(* there is none (1-based)                                                 *)
FirstSampleAtOrAfter(hft, x) ==
    LET at == {i \in DOMAIN hft : hft[i] >= x}
    IN  IF at = {} THEN Len(hft) ELSE CHOOSE i \in at : \A m \in at : i <= m

(* C4: a condition with one event of duration 0 and amplitude v has the    *)
(* timecourse that is v at the onset sample and 0 elsewhere when the onset *)
(* sample is not the last of the grid, and 0 everywhere when it is.        *)
C4_ImpulseIsOneSample ==
    HiresBuilt =>
        \A c \in DOMAIN cond_names :
            IsImpulse(c) =>
                LET ev == CondInfo(design, cond_names[c])[1]
                    hft == hires_frametimes
                    on == FirstSampleAtOrAfter(hft, ev.onset)
                IN  hires_base.data[c] =
                        [i \in DOMAIN hft |->
                            IF i = on /\ on < Len(hft) THEN ev.value ELSE 0]

C4_Witness ==
    /\ HiresBuilt
    /\ \E c \in DOMAIN cond_names :
          /\ IsImpulse(c)
          /\ CondInfo(design, cond_names[c])[1].onset = 7
          /\ CondInfo(design, cond_names[c])[1].value = 2
          /\ \E i \in DOMAIN hires_frametimes :
                /\ 1 < i /\ i < Len(hires_frametimes)
                /\ hires_base.data[c][i] = 2

----------------------------------------------------------------------------
(* The validation of the supplied components. *)

AfterRegressors == {"confounds", "artifacts", "assemble", "masks", "done"}

AfterConfounds == {"artifacts", "assemble", "masks", "done"}

IsFrame(comp) == comp.kind = "df"

(* an index that is the acquisition grid or the positions 0 .. ntp-1 *)
Aligned(index) ==
    \/ index = frametimes
    \/ index = [i \in 1..ntp |-> (i - 1) * Sec]

(* what the claim asks of one component and the frame made of it; reached *)
(* says that the construction came as far as this component              *)
ValidatedAsClaimed(comp, v, name_base, after, reached) ==
    IsFrame(comp) =>
        /\ (pc \in after) =>
              /\ Aligned(comp.index)
              /\ ~IsNone(v)
              /\ v.index = frametimes
              /\ v.data = comp.data
        /\ (frametimes # <<>> /\ ~Aligned(comp.index)) =>
              /\ pc \notin after
              /\ IsNone(v) /\ IsNone(design_matrix)
              /\ (pc = "error" /\ reached) =>
                    error = IF Len(comp.index) = ntp THEN AlignmentError(name_base)
                            ELSE LengthError

ReachedRegressors == ~IsNone(conditions)

ReachedConfounds == ReachedRegressors /\ (IsNone(regressors) \/ ~IsNone(v_regressors))

(* C5: a supplied regressor or confound frame is accepted only if its      *)
(* index is the acquisition grid or the positions 0 .. n-1, and is then on *)
(* the grid with its values unchanged; with any other index the            *)
(* construction stops with the ValueError (the alignment message for an    *)
(* index of the right length) and no design matrix.                        *)
C5_ComponentsAlignedOrRejected ==
    /\ ValidatedAsClaimed(regressors, v_regressors, "regressor", AfterRegressors,
                          ReachedRegressors)
    /\ ValidatedAsClaimed(confounds, v_confounds, "confound", AfterConfounds,
                          ReachedConfounds)
    /\ (pc = "error") => IsNone(design_matrix)

C5_Witness ==
    /\ pc = "error"
    /\ error = AlignmentError("confound")
    /\ IsFrame(confounds) /\ ~Aligned(confounds.index)
    /\ IsFrame(regressors) /\ regressors.index # frametimes
    /\ v_regressors.index = frametimes /\ v_regressors.data = regressors.data

----------------------------------------------------------------------------
(* contrast_vector *)

Called == ~IsNone(contrast)

EqualLength == Len(contrast.names) = Len(contrast.weights)

(* C6 as stated: the vector is as wide as the matrix, the position of each *)
(* listed name holds the weight listed with it, every other position is 0. *)
C6_ListedWeights ==
    (Called /\ EqualLength) =>
        /\ Len(contrast.vector) = Len(X.columns)
        /\ \A j \in Cols :
              /\ \A k \in DOMAIN contrast.names :
                    X.columns[j] = contrast.names[k] =>
                        contrast.vector[j] = contrast.weights[k]
              /\ X.columns[j] \notin Range(contrast.names) => contrast.vector[j] = 0

(* C6 amended: the position of each listed name holds the weight of the    *)
(* name's last listing (its only one when it is listed once), every other  *)
(* position is 0.                                                          *)
C6_LastListedWeights ==
    (Called /\ EqualLength) =>
        /\ Len(contrast.vector) = Len(X.columns)
        /\ \A j \in Cols :
              LET ks == {k \in DOMAIN contrast.names : contrast.names[k] = X.columns[j]}
              IN  contrast.vector[j] =
                      IF ks = {} THEN 0
                      ELSE contrast.weights[CHOOSE k \in ks : \A m \in ks : m <= k]

C6_Witness ==
    /\ Called
    /\ contrast.names = <<"B", "B">> /\ contrast.weights = <<2, 3>>
    /\ \E j \in Cols : X.columns[j] = "B" /\ contrast.vector[j] = 3
    /\ \E j \in Cols : X.columns[j] # "B" /\ contrast.vector[j] = 0

----------------------------------------------------------------------------
(* The high-pass filter. *)

Filtering == ~IsNone(hpf_cutoff)

(* the condition group as it is resampled from the oversampled columns *)
Resampled(j) ==
    Resample(hires_frametimes, hires_conditions.data[j],
             FrametimeMidpoints(frametimes, tr))

(* the values the caller or the artifact expansion supplied for column j   *)
(* of a group other than the condition group                               *)
Supplied(j) ==
    CASE GroupAt(j) = 2 -> regressors.data[OffsetIn(j)]
      [] GroupAt(j) = 3 -> confounds.data[OffsetIn(j)]
      [] GroupAt(j) = 4 -> art.data[OffsetIn(j)]

Proportional(a, b) == \A i, k \in DOMAIN a : a[i] * b[k] = a[k] * b[i]

(* C7 as stated: with a cutoff, the condition columns and the regressor    *)
(* columns of the matrix are the filtered ones, the confound and artifact  *)
(* columns the supplied ones.                                              *)
C7_ConditionsAndRegressorsFiltered ==
    (Built /\ Filtering) =>
        \A j \in Cols :
            X.data[j] =
                CASE GroupAt(j) = 1 -> Demean(FilterColumn(Demean(Resampled(j))))
                  [] GroupAt(j) = 2 -> Demean(FilterColumn(Supplied(j)))
                  [] OTHER -> Demean(Supplied(j))

(* C7 amended: with a cutoff, the filter is applied to the columns of the  *)
(* condition group and to no others: the regressor, confound and artifact  *)
(* columns of the matrix are the supplied values, centred.                 *)
C7_OnlyConditionsFiltered ==
    (Built /\ Filtering) =>
        \A j \in Cols :
            X.data[j] =
                IF GroupAt(j) = 1 THEN Demean(FilterColumn(Demean(Resampled(j))))
                ELSE Demean(Supplied(j))

C7_Witness ==
    /\ Done /\ Filtering
    /\ ~IsNone(v_regressors) /\ ~IsNone(v_confounds) /\ ~IsNone(v_artifacts)
    /\ \E j \in Cols :
          GroupAt(j) = 1 /\ ~Proportional(X.data[j], Demean(Resampled(j)))
    /\ \E j \in Cols :
          /\ GroupAt(j) = 2
          /\ ~Proportional(Demean(Supplied(j)), Demean(FilterColumn(Supplied(j))))

----------------------------------------------------------------------------
(* The artifact indicators. *)

IsMask == ~IsNone(artifacts) /\ Len(artifacts.v) = ntp /\ SumSeq(artifacts.v) >= 1

(* frame i is the j-th flagged frame of the mask, counting from the first *)
IsJthFlagged(i, j) ==
    /\ artifacts.v[i] # 0
    /\ Cardinality({g \in 1..(i - 1) : artifacts.v[g] # 0}) = j - 1

ReachedArtifacts == ReachedConfounds /\ (IsNone(confounds) \/ ~IsNone(v_confounds))

(* C8: a mask over the ntp frames with k >= 1 flagged frames gives exactly *)
(* k artifact columns, and before the final centring column j is 1 at the  *)
(* j-th flagged frame and 0 at every other frame; the k columns are the    *)
(* artifact group of the matrix.                                           *)
C8_OneIndicatorPerFlaggedFrame ==
    IsMask =>
        LET k == Cardinality({i \in 1..ntp : artifacts.v[i] # 0})
        IN  /\ ReachedArtifacts => pc # "error"
            /\ (pc \in {"assemble", "masks", "done"}) =>
                  /\ ~IsNone(v_artifacts)
                  /\ Len(v_artifacts.columns) = k /\ Len(v_artifacts.data) = k
                  /\ \A j \in 1..k :
                        v_artifacts.data[j] =
                            [i \in 1..ntp |-> IF IsJthFlagged(i, j) THEN 1 ELSE 0]
            /\ Built => Cardinality({j \in Cols : GroupAt(j) = 4}) = k
            /\ Done => Len(names.artifact) = k

C8_Witness ==
    /\ Done /\ IsMask
    /\ artifacts.v = <<0, 1, 1>>
    /\ v_artifacts.data = << <<0, 1, 0>>, <<0, 0, 1>> >>

----------------------------------------------------------------------------
(* The resampling at the TR midpoints. *)

GridsBuilt == hires_frametimes # <<>>

Midpoints == FrametimeMidpoints(frametimes, tr)

MidpointsInSupport == \A i \in DOMAIN frametimes : InSupport(hires_frametimes, Midpoints[i])

Abs(x) == IF x < 0 THEN -x ELSE x

(* sample k of the oversampled grid is as near to time x as any sample *)
IsNearest(k, x) ==
    \A m \in DOMAIN hires_frametimes :
        Abs(hires_frametimes[k] - x) <= Abs(hires_frametimes[m] - x)

(* the local conditions as _subsample_condition_matrix returned it *)
JustResampled == pc = "highpass"

ResampledFromNearest ==
    /\ conditions.index = frametimes
    /\ \A c \in DOMAIN conditions.data :
          /\ Len(conditions.data[c]) = ntp
          /\ \A i \in 1..ntp :
                \E k \in DOMAIN hires_frametimes :
                    /\ IsNearest(k, frametimes[i] + tr \div 2)
                    /\ \A d \in DOMAIN conditions.data :
                          conditions.data[d][i] = hires_conditions.data[d][k]

ConstantsResampled ==
    \A c \in {-1, 0, 5} :
        Resample(hires_frametimes, [k \in DOMAIN hires_frametimes |-> c], Midpoints)
            = [i \in 1..ntp |-> c]

(* C9 as stated: for every ntp, TR and oversampling >= 1 every midpoint    *)
(* acquisition_time + TR/2 lies inside the oversampled grid, and the       *)
(* resampled columns hold the nearest samples.                             *)
C9_EveryMidpointInSupport ==
    GridsBuilt =>
        /\ MidpointsInSupport
        /\ error # InterpolationError
        /\ JustResampled => ResampledFromNearest

(* C9 amended: for oversampling 1 and for oversampling >= 2 every midpoint *)
(* lies inside the oversampled grid and the resampling yields one value    *)
(* per acquisition timestamp, that of a nearest oversampled sample; a      *)
(* constant signal is resampled to the constant.                           *)
C9_MidpointsInSupportOutsideOneToTwo ==
    (GridsBuilt /\ (oversampling = <<1, 1>> \/ oversampling[1] >= 2 * oversampling[2])) =>
        /\ MidpointsInSupport
        /\ error # InterpolationError
        /\ ConstantsResampled
        /\ JustResampled => ResampledFromNearest

C9_Witness ==
    /\ JustResampled
    /\ oversampling = <<1, 1>>
    /\ ntp = 3
    /\ \E c \in DOMAIN conditions.data : \E i, j \in 1..ntp :
          conditions.data[c][i] # conditions.data[c][j]

----------------------------------------------------------------------------
(* Condition names that the event table does not hold. *)

MissingCondition ==
    \E c \in Range(cond_names) : \A k \in DOMAIN design.rows : design.rows[k].condition # c

(* C10: when condition_names lists a condition that the event table does   *)
(* not hold, the construction fails and no design matrix is produced.      *)
C10_MissingConditionRejected ==
    (GridsBuilt /\ MissingCondition) => (IsNone(design_matrix) /\ pc # "done")

----------------------------------------------------------------------------
(* The construction of the HRF model. *)

ModelCalled == pc # "new"

(* C11: calling FIR fails at once with NotImplementedError: the call ends  *)
(* in that error, yields no model object, and no design matrix is ever     *)
(* built with it.                                                          *)
C11_FIRRaisesNotImplemented ==
    (hrf_class.cls = "FIR" /\ ModelCalled) =>
        /\ pc = "error"
        /\ error = NotImplementedError
        /\ IsNone(hrf_model)
        /\ IsNone(design_matrix)

----------------------------------------------------------------------------
(* The caller's event table. *)

(* C12: no step of the construction changes the caller's event table: it   *)
(* has the same columns and the same rows after every step as before it,   *)
(* also when it was supplied without a duration or without a value column. *)
C12_DesignUnchanged == [][design' = design]_vars

----------------------------------------------------------------------------
(* The timecourse of several events. *)

(* the 0-based onset index of an event: the first sample at or after its   *)
(* onset, the last sample when there is none                               *)
OnsetIndexOf(e) == FirstSampleAtOrAfter(hires_frametimes, e.onset) - 1

(* its offset index: the same for onset + duration, moved on by one when   *)
(* it equals the onset index below the last index                          *)
OffsetIndexOf(e) ==
    LET off == FirstSampleAtOrAfter(hires_frametimes, e.onset + e.duration) - 1
    IN  IF off < Len(hires_frametimes) - 1 /\ off = OnsetIndexOf(e) THEN off + 1 ELSE off

(* the amplitude of event e at the sample of 0-based index i *)
AmplitudeAt(e, i) == IF OnsetIndexOf(e) <= i /\ i < OffsetIndexOf(e) THEN e.value ELSE 0

(* C13: the timecourse of a condition has at every sample the sum of the   *)
(* amplitudes of the events of the condition whose interval [onset index,  *)
(* offset index) holds the sample, and so 0 where no event does, also when *)
(* several events have the same onset index or the same offset index.      *)
C13_TimecourseSumsCoveringEvents ==
    HiresBuilt =>
        \A c \in DOMAIN cond_names :
            LET info == CondInfo(design, cond_names[c])
            IN  hires_base.data[c] =
                    [i \in DOMAIN hires_frametimes |->
                        SumSeq([k \in DOMAIN info |-> AmplitudeAt(info[k], i - 1)])]

====
